---- MODULE Spec2Model ----
(***************************************************************************)
(* A model of the wire circuit of src/main.rs: wires with gates over       *)
(* 16-bit signals, linked by Circuit::assemble and evaluated lazily with a *)
(* per-wire cache by Circuit::get, with Circuit::set and Circuit::reset.   *)
(*                                                                         *)
(* A wire is a record [name, gate, signal]; a WireRef (Rc<RefCell<Wire>>)  *)
(* is the index of the wire in the circuit's vector.  A RefCell borrow is  *)
(* modelled by the set of wires that are mutably borrowed at a point of    *)
(* the recursion (the wires on the call stack).                            *)
(***************************************************************************)
EXTENDS Integers, Sequences, FiniteSets, TLC

VARIABLES
    build,   \* "debug" or "release": whether overflow checks are compiled in
    input,   \* the wires as parsed, in the order they were supplied
    wires,   \* Circuit.wires: a sequence of [name, gate, signal]
    pc,      \* "assemble" (inside the loop of assemble), "ready", "panicked"
    idx,     \* position of the loop of Circuit::assemble
    evals,   \* per wire: evaluations of its gate since the caches were cleared
    seen,    \* per name: the gets since the last set and what the last returned
    last,    \* the last call on the circuit and what it returned
    steps    \* number of calls made on the assembled circuit

vars == <<build, input, wires, pc, idx, evals, seen, last, steps>>

-----------------------------------------------------------------------------
(* Bounds *)

MaxSteps == 3

-----------------------------------------------------------------------------
(* Signals *)

SignalBits == 16

RECURSIVE Pow2(_)
Pow2(n) == IF n = 0 THEN 1 ELSE 2 * Pow2(n - 1)

SignalMod == Pow2(SignalBits)

\* Option<Signal>::None
None == -1

\* the outcome of a call that panicked (the process aborts)
Panicked == None - 1

\* no call observed yet
NotYet == None - 2

RECURSIVE BitAnd(_, _)
BitAnd(a, b) ==
    IF a = 0 \/ b = 0 THEN 0
    ELSE (a % 2) * (b % 2) + 2 * BitAnd(a \div 2, b \div 2)

RECURSIVE BitOr(_, _)
BitOr(a, b) ==
    IF a = 0 THEN b
    ELSE IF b = 0 THEN a
    ELSE (IF a % 2 = 1 \/ b % 2 = 1 THEN 1 ELSE 0) + 2 * BitOr(a \div 2, b \div 2)

RECURSIVE FlipBits(_, _)
FlipBits(a, n) ==
    IF n = 0 THEN 0 ELSE (1 - (a % 2)) + 2 * FlipBits(a \div 2, n - 1)

BitNotNegates(a) == (SignalMod - a) % SignalMod

\* !s on u16: every one of the 16 bits flipped
BitNot(a) == FlipBits(a, SignalBits)

\* s >> o and s << o on u16 for a shift count below the width
Shr(s, o) == s \div Pow2(o)

Shl(s, o) == (s * Pow2(o)) % SignalMod

-----------------------------------------------------------------------------
(* Inputs, gates, wires *)

InSignal(s) == [kind |-> "Signal", sig |-> s, name |-> "", ref |-> 0]

Disconnected(n) == [kind |-> "Disconnected", sig |-> 0, name |-> n, ref |-> 0]

Connected(w) == [kind |-> "Connected", sig |-> 0, name |-> "", ref |-> w]

NoInput == [kind |-> "Absent", sig |-> 0, name |-> "", ref |-> 0]

Single(a) == [op |-> "Single", a |-> a, b |-> NoInput, o |-> 0]

And(a, b) == [op |-> "And", a |-> a, b |-> b, o |-> 0]

Or(a, b) == [op |-> "Or", a |-> a, b |-> b, o |-> 0]

RShift(a, o) == [op |-> "RShift", a |-> a, b |-> NoInput, o |-> o]

LShift(a, o) == [op |-> "LShift", a |-> a, b |-> NoInput, o |-> o]

Not(a) == [op |-> "Not", a |-> a, b |-> NoInput, o |-> 0]

\* Wire::parse: a new wire has no signal
WireParse(n, g) == [name |-> n, gate |-> g, signal |-> None]

IsConn(in) == in.kind \in {"Disconnected", "Connected"}

\* the inputs of a gate, in the order of its fields
GateInputs(g) == IF g.op \in {"And", "Or"} THEN <<g.a, g.b>> ELSE <<g.a>>

GateIsConnected(g) ==
    \A k \in DOMAIN GateInputs(g) : GateInputs(g)[k].kind # "Disconnected"

Min(S) == CHOOSE m \in S : \A n \in S : m <= n

\* the wires the gate of wire j is connected to
RefsOf(ws, j) ==
    LET ins == GateInputs(ws[j].gate)
    IN {ins[k].ref : k \in {i \in DOMAIN ins : ins[i].kind = "Connected"}}

RECURSIVE ReachFrom(_, _, _)
ReachFrom(ws, S, n) ==
    IF n = 0 THEN S
    ELSE ReachFrom(ws, S \cup UNION {RefsOf(ws, k) : k \in S}, n - 1)

\* the wires that wire j depends on through connected inputs
Deps(ws, j) == ReachFrom(ws, RefsOf(ws, j), Len(ws))

-----------------------------------------------------------------------------
(* Linking.  B is the set of wires that are mutably borrowed: the wire the  *)
(* loop of assemble holds and the wires connect has recursed into.          *)

RECURSIVE WireConnect(_, _, _)
RECURSIVE GateConnect(_, _, _)
RECURSIVE FindWire(_, _, _)

FindWireLastMatch(conn, ws, B) ==
    IF conn.kind = "Connected"
    THEN [ws |-> ws, conn |-> conn, panic |-> FALSE]
    ELSE LET found == {k \in DOMAIN ws : k \notin B /\ ws[k].name = conn.name}
         IN IF found = {}
            THEN [ws |-> ws, conn |-> conn, panic |-> FALSE]
            ELSE LET w == CHOOSE m \in found : \A k \in found : k <= m
                     r == WireConnect(ws, w, B \cup {w})
                 IN [ws |-> r.ws, conn |-> Connected(w), panic |-> r.panic]

FindWireRebinds(conn, ws, B) ==
    LET name == IF conn.kind = "Connected" THEN ws[conn.ref].name ELSE conn.name
        found == {k \in DOMAIN ws : k \notin B /\ ws[k].name = name}
    IN IF found = {}
       THEN [ws |-> ws, conn |-> Disconnected(name), panic |-> FALSE]
       ELSE LET w == Min(found)
                r == WireConnect(ws, w, B \cup {w})
            IN [ws |-> r.ws, conn |-> Connected(w), panic |-> r.panic]

\* find_wire: [ws, conn, panic]
FindWire(conn, ws, B) ==
    IF conn.kind = "Connected"
    THEN [ws |-> ws, conn |-> conn, panic |-> FALSE]
    ELSE LET found == {k \in DOMAIN ws : k \notin B /\ ws[k].name = conn.name}
         IN IF found = {}
            THEN [ws |-> ws, conn |-> conn, panic |-> FALSE]
            ELSE LET w == Min(found)
                     r == WireConnect(ws, w, B \cup {w})
                 IN [ws |-> r.ws, conn |-> Connected(w), panic |-> r.panic]

GateConnectFirstOnly(ws, j, B) ==
    LET g == ws[j].gate
    IN IF IsConn(g.a)
       THEN LET ra == FindWire(g.a, ws, B)
            IN IF ra.panic
               THEN [ws |-> ra.ws, panic |-> TRUE]
               ELSE [ws |-> [ra.ws EXCEPT ![j].gate.a = ra.conn], panic |-> FALSE]
       ELSE IF g.op \in {"And", "Or"} /\ IsConn(g.b)
       THEN LET rb == FindWire(g.b, ws, B)
            IN IF rb.panic
               THEN [ws |-> rb.ws, panic |-> TRUE]
               ELSE [ws |-> [rb.ws EXCEPT ![j].gate.b = rb.conn], panic |-> FALSE]
       ELSE [ws |-> ws, panic |-> FALSE]

\* Gate::connect on the gate of wire j: [ws, panic]
GateConnect(ws, j, B) ==
    LET g == ws[j].gate
    IN IF g.op \in {"And", "Or"} /\ IsConn(g.a) /\ IsConn(g.b)
       THEN LET ra == FindWire(g.a, ws, B)
            IN IF ra.panic
               THEN [ws |-> ra.ws, panic |-> TRUE]
               ELSE LET ws1 == [ra.ws EXCEPT ![j].gate.a = ra.conn]
                        rb == FindWire(g.b, ws1, B)
                    IN IF rb.panic
                       THEN [ws |-> rb.ws, panic |-> TRUE]
                       ELSE [ws |-> [rb.ws EXCEPT ![j].gate.b = rb.conn],
                             panic |-> FALSE]
       ELSE IF IsConn(g.a)
       THEN LET ra == FindWire(g.a, ws, B)
            IN IF ra.panic
               THEN [ws |-> ra.ws, panic |-> TRUE]
               ELSE [ws |-> [ra.ws EXCEPT ![j].gate.a = ra.conn], panic |-> FALSE]
       ELSE IF g.op \in {"And", "Or"} /\ IsConn(g.b)
       THEN LET rb == FindWire(g.b, ws, B)
            IN IF rb.panic
               THEN [ws |-> rb.ws, panic |-> TRUE]
               ELSE [ws |-> [rb.ws EXCEPT ![j].gate.b = rb.conn], panic |-> FALSE]
       ELSE [ws |-> ws, panic |-> FALSE]

\* print_input! borrows every connected input wire to read its name; the
\* borrow fails when that wire is mutably borrowed
PrintInputPanics(g, B) ==
    \E k \in DOMAIN GateInputs(g) :
        GateInputs(g)[k].kind = "Connected" /\ GateInputs(g)[k].ref \in B

\* Wire::connect on wire j: [ws, panic]
WireConnect(ws, j, B) ==
    IF GateIsConnected(ws[j].gate)
    THEN [ws |-> ws, panic |-> FALSE]
    ELSE LET r == GateConnect(ws, j, B)
         IN IF r.panic
            THEN r
            ELSE [ws |-> r.ws, panic |-> PrintInputPanics(r.ws[j].gate, B)]

\* the loop of Circuit::assemble from position i on: [ws, panic]
RECURSIVE AssembleFrom(_, _)
AssembleFrom(ws, i) ==
    IF i > Len(ws)
    THEN [ws |-> ws, panic |-> FALSE]
    ELSE LET r == WireConnect(ws, i, {i})
         IN IF r.panic THEN r ELSE AssembleFrom(r.ws, i + 1)

\* Circuit::assemble on the parsed wires
CircuitAssemble(ws) == AssembleFrom(ws, 1)

\* the wires after the first n iterations of the loop of Circuit::assemble
RECURSIVE LoopUpTo(_, _)
LoopUpTo(ws, n) ==
    IF n = 0 THEN ws ELSE WireConnect(LoopUpTo(ws, n - 1), n, {n}).ws

-----------------------------------------------------------------------------
(* Evaluation.  A state st is [ws, ev]: the wires and the per-wire counter  *)
(* of gate evaluations.  A result is [st, val, panic].                      *)

RECURSIVE WireGetSignal(_, _, _, _)
RECURSIVE InputGetSignal(_, _, _, _)

ConnectionGetSignalReentrant(st, c, B, bld) ==
    IF c.kind = "Disconnected"
    THEN [st |-> st, val |-> None, panic |-> FALSE]
    ELSE IF c.ref \in B
    THEN [st |-> st, val |-> 0, panic |-> FALSE]
    ELSE WireGetSignal(st, c.ref, B \cup {c.ref}, bld)

\* Connection::get_signal: a disconnected name has no signal; a connected
\* wire is borrowed mutably, which fails when it is already borrowed
ConnectionGetSignal(st, c, B, bld) ==
    IF c.kind = "Disconnected"
    THEN [st |-> st, val |-> None, panic |-> FALSE]
    ELSE IF c.ref \in B
    THEN [st |-> st, val |-> None, panic |-> TRUE]
    ELSE WireGetSignal(st, c.ref, B \cup {c.ref}, bld)

\* Input::get_signal
InputGetSignal(st, in, B, bld) ==
    IF in.kind = "Signal"
    THEN [st |-> st, val |-> in.sig, panic |-> FALSE]
    ELSE ConnectionGetSignal(st, in, B, bld)

\* s >> o: with overflow checks a count of 16 or more panics, without them
\* the count is taken modulo the width
ShiftRight(s, o, bld) ==
    IF o < SignalBits THEN [val |-> Shr(s, o), panic |-> FALSE]
    ELSE IF bld = "debug" THEN [val |-> None, panic |-> TRUE]
    ELSE [val |-> Shr(s, o % SignalBits), panic |-> FALSE]

\* s << o
ShiftLeft(s, o, bld) ==
    IF o < SignalBits THEN [val |-> Shl(s, o), panic |-> FALSE]
    ELSE IF bld = "debug" THEN [val |-> None, panic |-> TRUE]
    ELSE [val |-> Shl(s, o % SignalBits), panic |-> FALSE]

\* Gate::get_signal
GateGetSignal(st, g, B, bld) ==
    LET ra == InputGetSignal(st, g.a, B, bld)
    IN IF ra.panic \/ ra.val = None
       THEN ra
       ELSE CASE g.op = "Single" -> ra
              [] g.op \in {"And", "Or"} ->
                    LET rb == InputGetSignal(ra.st, g.b, B, bld)
                    IN IF rb.panic \/ rb.val = None
                       THEN rb
                       ELSE [rb EXCEPT !.val = IF g.op = "And"
                                                THEN BitAnd(ra.val, rb.val)
                                                ELSE BitOr(ra.val, rb.val)]
              [] g.op = "RShift" ->
                    LET s == ShiftRight(ra.val, g.o, bld)
                    IN [st |-> ra.st, val |-> s.val, panic |-> s.panic]
              [] g.op = "LShift" ->
                    LET s == ShiftLeft(ra.val, g.o, bld)
                    IN [st |-> ra.st, val |-> s.val, panic |-> s.panic]
              [] g.op = "Not" -> [ra EXCEPT !.val = BitNot(ra.val)]

CachedSignalNarrow(signal) == IF signal = None THEN None ELSE signal % 256

CachedSignalDefaultsZero(signal) == IF signal = None THEN 0 ELSE signal

\* what Wire::get_signal stores in the wire's signal field
CachedSignal(signal) == signal

WireGetSignalNoCache(st, j, B, bld) ==
    LET counted == [st EXCEPT !.ev[j] = @ + 1]
        r == GateGetSignal(counted, st.ws[j].gate, B, bld)
    IN IF r.panic
       THEN r
       ELSE [st |-> [r.st EXCEPT !.ws[j].signal = CachedSignal(r.val)],
             val |-> r.val, panic |-> FALSE]

WireGetSignalTakesCache(st, j, B, bld) ==
    IF st.ws[j].signal # None
    THEN [st |-> [st EXCEPT !.ws[j].signal = None],
          val |-> st.ws[j].signal, panic |-> FALSE]
    ELSE LET counted == [st EXCEPT !.ev[j] = @ + 1]
             r == GateGetSignal(counted, st.ws[j].gate, B, bld)
         IN IF r.panic
            THEN r
            ELSE [st |-> [r.st EXCEPT !.ws[j].signal = CachedSignal(r.val)],
                  val |-> r.val, panic |-> FALSE]

\* Wire::get_signal on wire j
WireGetSignal(st, j, B, bld) ==
    IF st.ws[j].signal # None
    THEN [st |-> st, val |-> st.ws[j].signal, panic |-> FALSE]
    ELSE LET counted == [st EXCEPT !.ev[j] = @ + 1]
             r == GateGetSignal(counted, st.ws[j].gate, B, bld)
         IN IF r.panic
            THEN r
            ELSE [st |-> [r.st EXCEPT !.ws[j].signal = CachedSignal(r.val)],
                  val |-> r.val, panic |-> FALSE]

\* the first wire with the name, 0 when there is none
FindByName(ws, n) ==
    LET found == {k \in DOMAIN ws : ws[k].name = n}
    IN IF found = {} THEN 0 ELSE Min(found)

CircuitGetUnwrap(st, n, bld) ==
    LET w == FindByName(st.ws, n)
    IN IF w = 0
       THEN [st |-> st, val |-> None, panic |-> TRUE]
       ELSE WireGetSignal(st, w, {w}, bld)

CircuitGetRefreshes(st, n, bld) ==
    LET w == FindByName(st.ws, n)
    IN IF w = 0
       THEN [st |-> st, val |-> None, panic |-> FALSE]
       ELSE WireGetSignal(
                [st EXCEPT !.ws = [k \in DOMAIN st.ws |->
                                     [st.ws[k] EXCEPT !.signal = None]]],
                w, {w}, bld)

\* Circuit::get
CircuitGet(st, n, bld) ==
    LET w == FindByName(st.ws, n)
    IN IF w = 0
       THEN [st |-> st, val |-> None, panic |-> FALSE]
       ELSE WireGetSignal(st, w, {w}, bld)

WireResetKeepsSignal(w) == w

\* Wire::reset
WireReset(w) == [w EXCEPT !.signal = None]

\* Circuit::reset
CircuitReset(ws) == [k \in DOMAIN ws |-> WireReset(ws[k])]

CircuitSetWithoutReset(ws, n, s) ==
    LET w == FindByName(ws, n)
    IN IF w = 0
       THEN [ws |-> ws, panic |-> TRUE]
       ELSE [ws |-> [ws EXCEPT ![w].gate = Single(InSignal(s))], panic |-> FALSE]

CircuitSetClearsDownstream(ws, n, s) ==
    LET w == FindByName(ws, n)
    IN IF w = 0
       THEN [ws |-> CircuitReset(ws), panic |-> TRUE]
       ELSE [ws |-> [k \in DOMAIN ws |->
                       IF k = w
                       THEN [ws[k] EXCEPT !.gate = Single(InSignal(s)),
                                          !.signal = None]
                       ELSE IF w \in Deps(ws, k) THEN WireReset(ws[k])
                       ELSE ws[k]],
             panic |-> FALSE]

CircuitSetClearsTarget(ws, n, s) ==
    LET w == FindByName(ws, n)
    IN IF w = 0
       THEN [ws |-> CircuitReset(ws), panic |-> TRUE]
       ELSE [ws |-> [ws EXCEPT ![w] = [@ EXCEPT !.gate = Single(InSignal(s)),
                                                 !.signal = None]],
             panic |-> FALSE]

CircuitSetFindsFirst(ws, n, s) ==
    LET w == FindByName(ws, n)
    IN IF w = 0
       THEN [ws |-> ws, panic |-> TRUE]
       ELSE [ws |-> [CircuitReset(ws) EXCEPT ![w].gate = Single(InSignal(s))],
             panic |-> FALSE]

\* Circuit::set: [ws, panic]
CircuitSet(ws, n, s) ==
    LET cleared == CircuitReset(ws)
        w == FindByName(cleared, n)
    IN IF w = 0
       THEN [ws |-> cleared, panic |-> TRUE]
       ELSE [ws |-> [cleared EXCEPT ![w].gate = Single(InSignal(s))],
             panic |-> FALSE]

-----------------------------------------------------------------------------
(* The circuits the model is run on *)

\* Input::from(&str): a number is a signal, anything else names a wire
Sig(s) == InSignal(s)

Ref(n) == Disconnected(n)

\* wire names that definitions give, and a name no definition gives
WireNames == {"x", "y", "d"}

AllNames == WireNames \cup {"z"}

\* the wires of the operator test (tests::assemble_circuit): two sources
\* and one gate over them, with shift counts below and above the width
Sources == {WireParse("x", Single(Sig(123))), WireParse("y", Single(Sig(456)))}

OpPool ==
    { WireParse("d", And(Ref("x"), Ref("y"))),
      WireParse("d", Or(Ref("x"), Ref("y"))),
      WireParse("d", LShift(Ref("x"), 2)),
      WireParse("d", RShift(Ref("y"), 2)),
      WireParse("d", Not(Ref("x"))),
      WireParse("d", Not(Ref("y"))),
      WireParse("d", LShift(Ref("x"), 17)),
      WireParse("d", RShift(Ref("y"), 16)) }

\* definitions for linking: chains, a cycle, a self reference, a dangling
\* name, the same name defined twice
LinkPool ==
    { WireParse("x", Single(Sig(123))),
      WireParse("y", Single(Ref("x"))),
      WireParse("x", Single(Ref("y"))),
      WireParse("y", And(Ref("d"), Ref("z"))),
      WireParse("y", And(Ref("z"), Ref("d"))),
      WireParse("y", Or(Sig(456), Ref("z"))),
      WireParse("x", And(Ref("d"), Ref("x"))),
      WireParse("d", Single(Ref("x"))),
      WireParse("d", Not(Ref("y"))),
      WireParse("d", LShift(Ref("x"), 17)) }

Pool == Sources \cup OpPool \cup LinkPool

Slots == {1, 2, 3}

Range(f) == {f[k] : k \in DOMAIN f}

\* a circuit is a list of different definitions, in any order: the two
\* sources and a gate, or three definitions for linking
Circuits ==
    {c \in [Slots -> Pool] :
        /\ \A i, j \in Slots : i # j => c[i] # c[j]
        /\ Range(c) \subseteq LinkPool \/ Sources \subseteq Range(c)}

SetValues == {65535}

NothingSeen == [n \in AllNames |-> [res |-> NotYet, calls |-> 0]]

NoCall == [op |-> "none", name |-> "", val |-> 0, res |-> None]

-----------------------------------------------------------------------------
(* The program *)

\* the builds a circuit is run in: overflow checks are seen only by a shift
\* whose count is not below the width, so the other circuits run in one
Builds(c) ==
    IF \E k \in DOMAIN c : c[k].gate.op \in {"RShift", "LShift"}
                            /\ c[k].gate.o >= SignalBits
    THEN {"debug", "release"}
    ELSE {"release"}

Init ==
    /\ input \in Circuits
    /\ build \in Builds(input)
    /\ wires = input
    /\ pc = "assemble"
    /\ idx = 1
    /\ evals = [k \in DOMAIN input |-> 0]
    /\ seen = NothingSeen
    /\ last = NoCall
    /\ steps = 0

\* one iteration of the loop of Circuit::assemble
AssembleStep ==
    /\ pc = "assemble"
    /\ LET r == WireConnect(wires, idx, {idx})
       IN /\ wires' = r.ws
          /\ pc' = IF r.panic THEN "panicked"
                   ELSE IF idx = Len(wires) THEN "ready" ELSE "assemble"
    /\ idx' = idx + 1
    /\ UNCHANGED <<build, input, evals, seen, last, steps>>

\* circuit.get(n)
Get(n) ==
    /\ pc = "ready"
    /\ steps < MaxSteps
    /\ LET r == CircuitGet([ws |-> wires, ev |-> evals], n, build)
           res == IF r.panic THEN Panicked ELSE r.val
       IN /\ wires' = r.st.ws
          /\ evals' = r.st.ev
          /\ pc' = IF r.panic THEN "panicked" ELSE "ready"
          /\ last' = [op |-> "get", name |-> n, val |-> 0, res |-> res]
          /\ seen' = [seen EXCEPT ![n] = [res |-> res, calls |-> @.calls + 1]]
    /\ steps' = steps + 1
    /\ UNCHANGED <<build, input, idx>>

\* circuit.set(n, s)
Set(n, s) ==
    /\ pc = "ready"
    /\ steps < MaxSteps
    /\ LET r == CircuitSet(wires, n, s)
       IN /\ wires' = r.ws
          /\ pc' = IF r.panic THEN "panicked" ELSE "ready"
          /\ last' = [op |-> "set", name |-> n, val |-> s,
                      res |-> IF r.panic THEN Panicked ELSE None]
    /\ evals' = [k \in DOMAIN wires |-> 0]
    /\ seen' = NothingSeen
    /\ steps' = steps + 1
    /\ UNCHANGED <<build, input, idx>>

\* circuit.reset()
Reset ==
    /\ pc = "ready"
    /\ steps < MaxSteps
    /\ wires' = CircuitReset(wires)
    /\ evals' = [k \in DOMAIN wires |-> 0]
    /\ last' = [op |-> "reset", name |-> "", val |-> 0, res |-> None]
    /\ steps' = steps + 1
    /\ UNCHANGED <<build, input, pc, idx, seen>>

Next ==
    \/ AssembleStep
    \/ \E n \in AllNames : Get(n)
    \/ \E n \in AllNames, s \in SetValues : Set(n, s)
    \/ Reset

Spec == Init /\ [][Next]_vars

-----------------------------------------------------------------------------
(* Observations used by the properties *)

NoEvals(ws) == [k \in DOMAIN ws |-> 0]

Outcome(r) == IF r.panic THEN Panicked ELSE r.val

\* what get_signal on wire j would return in a circuit with wires ws
Observe(ws, j) ==
    Outcome(WireGetSignal([ws |-> ws, ev |-> NoEvals(ws)], j, {j}, build))

\* what circuit.get(n) would return in a circuit with wires ws
ObserveGet(ws, n) ==
    Outcome(CircuitGet([ws |-> ws, ev |-> NoEvals(ws)], n, build))

\* the value of wire j computed from the gates alone, every cache ignored
Recomputed(ws, j) == Observe(CircuitReset(ws), j)

IsValue(v) == v >= 0

GetStep == steps' = steps + 1 /\ last'.op = "get"

SetStep == steps' = steps + 1 /\ last'.op = "set"

ResetStep == steps' = steps + 1 /\ last'.op = "reset"

FullyResolved(ws) == \A j \in DOMAIN ws : GateIsConnected(ws[j].gate)

Acyclic(ws) == \A j \in DOMAIN ws : j \notin Deps(ws, j)

\* the names the inputs of a parsed wire refer to
RefNames(w) ==
    LET ins == GateInputs(w.gate)
    IN {ins[k].name : k \in {i \in DOMAIN ins : ins[i].kind = "Disconnected"}}

RECURSIVE NamesReached(_, _, _)
NamesReached(c, N, n) ==
    IF n = 0 THEN N
    ELSE NamesReached(c,
            N \cup UNION {RefNames(c[k]) : k \in {i \in DOMAIN c : c[i].name \in N}},
            n - 1)

\* no definition of the list refers to its own name, directly or through
\* the definitions of the names it refers to
NoReferenceCycle(c) ==
    \A j \in DOMAIN c : c[j].name \notin NamesReached(c, RefNames(c[j]), Len(c))

DistinctNames(c) == \A i, j \in DOMAIN c : i # j => c[i].name # c[j].name

SomeCached == \E j \in DOMAIN wires : wires[j].signal # None

-----------------------------------------------------------------------------
(* C8 *)

\* C8: a set(name, value) on an existing wire leaves that wire with the gate
\* Pass(Literal(value)), every wire of the circuit without a cached signal,
\* and the gate and name of every other wire as they were.
C8_SetEffect ==
    [][(SetStep /\ FindByName(wires, last'.name) # 0) =>
        LET t == FindByName(wires, last'.name)
        IN /\ pc' = "ready"
           /\ DOMAIN wires' = DOMAIN wires
           /\ wires'[t].gate = Single(InSignal(last'.val))
           /\ \A j \in DOMAIN wires :
                /\ wires'[j].signal = None
                /\ wires'[j].name = wires[j].name
                /\ j # t => wires'[j].gate = wires[j].gate]_vars

\* a set on an existing wire that is a gate over another wire has happened
\* after an earlier call
C8_Witness ==
    /\ last.op = "set"
    /\ pc = "ready"
    /\ steps >= 2
    /\ \E j \in DOMAIN wires :
         /\ wires[j].name # last.name
         /\ wires[j].gate.op # "Single"
    /\ wires[FindByName(wires, last.name)].gate = Single(InSignal(last.val))

-----------------------------------------------------------------------------
(* C9 *)

\* C9: a reset() leaves every wire without a cached signal and with the gate
\* it had, and every wire evaluates after the reset to what it evaluated to
\* before it.
C9_ResetEffect ==
    [][ResetStep =>
        /\ DOMAIN wires' = DOMAIN wires
        /\ \A j \in DOMAIN wires :
             /\ wires'[j].signal = None
             /\ wires'[j].gate = wires[j].gate
             /\ wires'[j].name = wires[j].name
             /\ Observe(wires', j) = Observe(wires, j)]_vars

\* a reset has happened after a get that returned a value
C9_Witness ==
    /\ last.op = "reset"
    /\ steps >= 2
    /\ \E n \in AllNames : seen[n].calls > 0 /\ IsValue(seen[n].res)
    /\ \A j \in DOMAIN wires : wires[j].signal = None

-----------------------------------------------------------------------------
(* C10 *)

\* C10: get(name) for a name that no wire has returns no signal, without a
\* panic, and changes no wire.
C10_GetUnknown ==
    [][(GetStep /\ FindByName(wires, last'.name) = 0) =>
        /\ last'.res = None
        /\ pc' = "ready"
        /\ wires' = wires]_vars

\* a get of a name no wire has returned no signal while a wire had a cached
\* signal
C10_Witness ==
    /\ last.op = "get"
    /\ FindByName(wires, last.name) = 0
    /\ last.res = None
    /\ SomeCached

-----------------------------------------------------------------------------
(* C1 *)

\* C1: after set(b, v) on an existing wire b, get(b) returns v, every wire
\* that depends on b through its inputs evaluates to the value recomputed
\* from the gates as they are after the set (no signal cached before the set
\* is returned), and every wire that does not depend on b evaluates to what
\* it evaluated to before the set.
C1_Override ==
    [][(SetStep /\ FindByName(wires, last'.name) # 0) =>
        LET t == FindByName(wires, last'.name)
        IN /\ ObserveGet(wires', last'.name) = last'.val
           /\ \A j \in DOMAIN wires :
                IF j = t THEN Observe(wires', j) = last'.val
                ELSE IF t \in Deps(wires, j)
                THEN Observe(wires', j) = Recomputed(wires', j)
                ELSE Observe(wires', j) = Observe(wires, j)]_vars

\* a set has happened after an earlier call on a wire that another wire
\* depends on, and that other wire has a value, while a third does not
\* depend on the wire set
C1_Witness ==
    /\ last.op = "set"
    /\ pc = "ready"
    /\ steps >= 2
    /\ LET t == FindByName(wires, last.name)
       IN /\ t # 0
          /\ \E j \in DOMAIN wires :
               t \in Deps(wires, j) /\ IsValue(Observe(wires, j))
          /\ \E j \in DOMAIN wires :
               j # t /\ t \notin Deps(wires, j) /\ IsValue(Observe(wires, j))

-----------------------------------------------------------------------------
(* C6 *)

\* C6: in a fully resolved circuit without a cycle, a get(name) returns what
\* the previous get(name) returned when no set came between the two, whatever
\* other wires were asked for in between.
C6_Determinism ==
    [][(/\ GetStep
        /\ FullyResolved(wires)
        /\ Acyclic(wires)
        /\ seen[last'.name].calls > 0) =>
            last'.res = seen[last'.name].res]_vars

\* a wire of a fully resolved circuit without a cycle was asked for twice
\* and another wire was asked for as well, and the last get returned a value
C6_Witness ==
    /\ last.op = "get"
    /\ FullyResolved(wires)
    /\ Acyclic(wires)
    /\ seen[last.name].calls >= 2
    /\ IsValue(last.res)
    /\ \E n \in AllNames : n # last.name /\ seen[n].calls > 0

-----------------------------------------------------------------------------
(* C7 *)

\* C7: a get never evaluates the gate of a wire that has a cached signal, and
\* in a fully resolved circuit without a cycle the gate of each wire is
\* evaluated at most once between two clearings of the caches.
C7_EvaluatedOnce ==
    [][/\ GetStep =>
            \A j \in DOMAIN wires :
                wires[j].signal # None => evals'[j] = evals[j]
       /\ (FullyResolved(wires') /\ Acyclic(wires')) =>
            \A j \in DOMAIN wires' : evals'[j] <= 1]_vars

\* in a fully resolved circuit without a cycle a wire was asked for twice,
\* another wire that depends on it or that it depends on was asked for, and
\* its gate was evaluated once
C7_Witness ==
    /\ last.op = "get"
    /\ FullyResolved(wires)
    /\ Acyclic(wires)
    /\ seen[last.name].calls >= 2
    /\ \E n \in AllNames : n # last.name /\ seen[n].calls > 0
    /\ LET w == FindByName(wires, last.name)
       IN w # 0 /\ evals[w] = 1 /\ Deps(wires, w) # {}
                /\ \A k \in Deps(wires, w) : evals[k] = 1

-----------------------------------------------------------------------------
(* C4 *)

\* the signal an input of a gate has in the circuit
OperandValue(ws, in) ==
    IF in.kind = "Signal" THEN in.sig
    ELSE IF in.kind = "Connected" THEN Observe(ws, in.ref)
    ELSE None

BitsOf(a) == {i \in 0..(SignalBits - 1) : (a \div Pow2(i)) % 2 = 1}

RECURSIVE FromBits(_)
FromBits(S) ==
    IF S = {} THEN 0
    ELSE LET i == CHOOSE i \in S : TRUE IN Pow2(i) + FromBits(S \ {i})

\* C4: whenever the operands of a gate have a value, a Pass wire evaluates
\* to its operand, an And wire to the number whose bits are those set in both
\* operands, an Or wire to the number whose bits are those set in either, a
\* Not wire to 65535 minus its operand; and with operands 123 and 456 the
\* gates evaluate to 72, 507, 65412, 65079, 492 (123 shifted left by 2) and
\* 114 (456 shifted right by 2).
C4_OperatorCorrectness ==
    pc = "ready" =>
        \A j \in DOMAIN wires :
            LET g == wires[j].gate
                a == OperandValue(wires, g.a)
                b == OperandValue(wires, g.b)
                r == Observe(wires, j)
            IN /\ (g.op = "Single" /\ IsValue(a)) => r = a
               /\ (g.op = "And" /\ IsValue(a) /\ IsValue(b)) =>
                     /\ r = FromBits(BitsOf(a) \cap BitsOf(b))
                     /\ (a = 123 /\ b = 456) => r = 72
               /\ (g.op = "Or" /\ IsValue(a) /\ IsValue(b)) =>
                     /\ r = FromBits(BitsOf(a) \cup BitsOf(b))
                     /\ (a = 123 /\ b = 456) => r = 507
               /\ (g.op = "Not" /\ IsValue(a)) =>
                     /\ r = 65535 - a
                     /\ a = 123 => r = 65412
                     /\ a = 456 => r = 65079
               /\ (g.op = "LShift" /\ a = 123 /\ g.o = 2) => r = 492
               /\ (g.op = "RShift" /\ a = 456 /\ g.o = 2) => r = 114

\* a get has returned 72 for a wire that is the And of two connected wires
\* with the signals 123 and 456
C4_Witness ==
    /\ last.op = "get"
    /\ last.res = 72
    /\ LET w == FindByName(wires, last.name)
       IN /\ w # 0
          /\ wires[w].gate.op = "And"
          /\ wires[w].gate.a.kind = "Connected"
          /\ wires[w].gate.b.kind = "Connected"
          /\ OperandValue(wires, wires[w].gate.a) = 123
          /\ OperandValue(wires, wires[w].gate.b) = 456

-----------------------------------------------------------------------------
(* C5 *)

\* C5: for every shift count, 16 and more included, a ShiftLeft wire whose
\* operand has the value a evaluates to (a * 2^k) mod 2^16 and a ShiftRight
\* wire to floor(a / 2^k), never to an error.
C5_ShiftWraparound ==
    pc = "ready" =>
        \A j \in DOMAIN wires :
            LET g == wires[j].gate
                a == OperandValue(wires, g.a)
                r == Observe(wires, j)
            IN /\ (g.op = "LShift" /\ IsValue(a)) =>
                     r = (a * Pow2(g.o)) % Pow2(16)
               /\ (g.op = "RShift" /\ IsValue(a)) =>
                     r = a \div Pow2(g.o)

-----------------------------------------------------------------------------
(* C3 *)

\* wire j has an input that names a wire the circuit does not have
HasDangling(ws, j) ==
    \E k \in DOMAIN GateInputs(ws[j].gate) :
        LET in == GateInputs(ws[j].gate)[k]
        IN in.kind = "Disconnected" /\ FindByName(ws, in.name) = 0

DependsOnDangling(ws, j) ==
    HasDangling(ws, j) \/ \E k \in Deps(ws, j) : HasDangling(ws, k)

\* C3: in a circuit without a cycle, a wire with an input that names no wire
\* of the circuit, and every wire that depends on such a wire, evaluates to
\* no signal, and neither the evaluation nor the assembly panics.  (The
\* claim is for every circuit; it is stated here for the circuits without a
\* cycle, where it fails as well.)
C3_DanglingNoSignal ==
    /\ (pc = "ready" /\ Acyclic(wires)) =>
          \A j \in DOMAIN wires :
              DependsOnDangling(wires, j) => Observe(wires, j) = None
    /\ (pc = "panicked" /\ steps = 0 /\ NoReferenceCycle(input)) =>
          \A j \in DOMAIN input : ~HasDangling(input, j)

-----------------------------------------------------------------------------
(* C2 *)

Orders(D) == {p \in [D -> D] : \A i, j \in D : i # j => p[i] # p[j]}

Permuted(c, p) == [k \in DOMAIN c |-> c[p[k]]]

\* what get(n) returns once the program has assembled the list c
AssembledOutcome(c, n) ==
    LET r == CircuitAssemble(c)
    IN IF r.panic THEN Panicked ELSE ObserveGet(r.ws, n)

\* assemble has returned or panicked, and no call has been made yet
AssemblyEnded == steps = 0 /\ pc \in {"ready", "panicked"}

\* what get(n) returns in the program as it is when assembly has ended
StateOutcome(n) == IF pc = "panicked" THEN Panicked ELSE ObserveGet(wires, n)

SameInAnyOrder ==
    \A p \in Orders(DOMAIN input) : \A n \in AllNames :
        AssembledOutcome(Permuted(input, p), n) = StateOutcome(n)

\* C2: for any list of definitions, get(name) returns for every name the
\* same outcome in whatever order the definitions are assembled.
C2_OrderIndependence == AssemblyEnded => SameInAnyOrder

\* where C2 does hold: for any list of definitions with different wire names
\* in which no definition refers to itself, directly or through other
\* definitions (the lists on which assemble cannot abort, see C15),
\* get(name) returns for every name the same outcome in whatever order the
\* definitions are assembled.
C2_OrderIndependenceDistinctAcyclic ==
    (AssemblyEnded /\ DistinctNames(input) /\ NoReferenceCycle(input)) =>
        SameInAnyOrder

\* a list with different names and without a reference cycle was assembled
\* in which a definition refers to one given after it, and the wire that
\* refers forward has a value
C2_Witness ==
    /\ AssemblyEnded
    /\ pc = "ready"
    /\ DistinctNames(input)
    /\ NoReferenceCycle(input)
    /\ \E j, k \in DOMAIN input :
         /\ j < k
         /\ input[k].name \in RefNames(input[j])
         /\ IsValue(StateOutcome(input[j].name))

-----------------------------------------------------------------------------
(* C11 *)

\* C11: a wire that has a cached signal keeps exactly that signal over every
\* call; the signal changes only by being cleared, and only in a set or a
\* reset, which leaves no wire of the circuit with a cached signal.
C11_CacheStability ==
    [][\A j \in DOMAIN wires :
          wires[j].signal # None =>
              \/ wires'[j].signal = wires[j].signal
              \/ /\ SetStep \/ ResetStep
                 /\ \A k \in DOMAIN wires' : wires'[k].signal = None]_vars

\* a wire was asked for a second time and still has the signal the first get
\* cached, and so has a wire it depends on
C11_Witness ==
    /\ last.op = "get"
    /\ seen[last.name].calls >= 2
    /\ LET w == FindByName(wires, last.name)
       IN /\ w # 0
          /\ IsValue(last.res)
          /\ wires[w].signal = last.res
          /\ \E k \in Deps(wires, w) : IsValue(wires[k].signal)

-----------------------------------------------------------------------------
(* C12 *)

\* the wires as assemble leaves them
Linked == CircuitAssemble(input).ws

\* C12: a get of a wire that returns no signal leaves that wire without a
\* cached signal, and when a set on another wire then gives the wire a value
\* (the value its gates compute), the next get of the wire returns that
\* value, not a remembered absence.
C12_NoSignalNotCached ==
    pc = "ready" =>
        \A n \in AllNames :
            LET w == FindByName(wires, n)
                r == CircuitGet([ws |-> wires, ev |-> evals], n, build)
            IN (w # 0 /\ ~r.panic /\ r.val = None) =>
                  /\ r.st.ws[w].signal = None
                  /\ \A t \in AllNames \ {n}, v \in SetValues :
                        LET s == CircuitSet(r.st.ws, t, v)
                        IN (~s.panic /\ IsValue(Recomputed(s.ws, w))) =>
                              ObserveGet(s.ws, n) = Recomputed(s.ws, w)

\* a wire that depended on a name no wire has, and whose gate is as it was
\* linked, returned a value to the get that followed a set on a wire between
\* it and that name
C12_Witness ==
    /\ last.op = "get"
    /\ IsValue(last.res)
    /\ steps = MaxSteps
    /\ seen[last.name].calls = 1
    /\ LET w == FindByName(wires, last.name)
       IN /\ w # 0
          /\ DependsOnDangling(Linked, w)
          /\ ~HasDangling(Linked, w)
          /\ wires[w].gate = Linked[w].gate
          /\ wires[w].signal = last.res

-----------------------------------------------------------------------------
(* C13 *)

\* assemble has returned and no call has been made on the circuit
AssembleReturned == pc = "ready" /\ steps = 0

\* every reference of the parsed wires whose name is the name of a wire in
\* the set Candidates(j) of its holder j is connected to a wire of that
\* name, and every other reference is as it was parsed
ReferencesResolved(Candidates(_)) ==
    \A j \in DOMAIN input :
        \A k \in DOMAIN GateInputs(input[j].gate) :
            LET parsed == GateInputs(input[j].gate)[k]
                linked == GateInputs(wires[j].gate)[k]
            IN parsed.kind = "Disconnected" =>
                  IF \E m \in Candidates(j) : input[m].name = parsed.name
                  THEN /\ linked.kind = "Connected"
                       /\ wires[linked.ref].name = parsed.name
                  ELSE linked = parsed

AnyWire(j) == DOMAIN input

AnyOtherWire(j) == DOMAIN input \ {j}

\* C13 as claimed: when assemble returns, every reference whose name is the
\* name of some wire of the circuit, its holder included, is connected to a
\* wire of that name, and a reference is left unconnected only if no wire
\* has that name.
C13_LinkingComplete == AssembleReturned => ReferencesResolved(AnyWire)

\* C13 as amended: when assemble returns, every reference whose name is the
\* name of some wire other than its holder is connected to a wire of that
\* name, and a reference is left unconnected only if no wire other than its
\* holder has that name.
C13_LinkingCompleteButSelf == AssembleReturned => ReferencesResolved(AnyOtherWire)

\* assemble has returned with a cycle of connected references, reached
\* re-entrantly while linking, and with a reference of a wire to its own
\* name left unconnected
C13_Witness ==
    /\ AssembleReturned
    /\ ~Acyclic(wires)
    /\ \E j \in DOMAIN wires :
         \E k \in DOMAIN GateInputs(wires[j].gate) :
            GateInputs(wires[j].gate)[k] = Disconnected(wires[j].name)

-----------------------------------------------------------------------------
(* C14 *)

\* an input after a step of linking is the input before it, or the input
\* before it was a name and it is now connected to a wire of that name
BoundOrSame(ws, before, after) ==
    \/ after = before
    \/ /\ before.kind = "Disconnected"
       /\ after.kind = "Connected"
       /\ after.ref \in DOMAIN ws
       /\ ws[after.ref].name = before.name

\* C14: an iteration of the loop of assemble changes a wire only by
\* connecting an unconnected reference to a wire of the name it holds: a
\* connected reference stays connected to the same wire, a signal operand,
\* the operator, the shift count, the name and the cached signal stay as
\* they are, and the visit of a wire whose gate is connected changes nothing.
C14_LinkingOnlyBinds ==
    [][pc = "assemble" =>
        /\ DOMAIN wires' = DOMAIN wires
        /\ \A j \in DOMAIN wires :
             /\ wires'[j].name = wires[j].name
             /\ wires'[j].signal = wires[j].signal
             /\ wires'[j].gate.op = wires[j].gate.op
             /\ wires'[j].gate.o = wires[j].gate.o
             /\ BoundOrSame(wires, wires[j].gate.a, wires'[j].gate.a)
             /\ BoundOrSame(wires, wires[j].gate.b, wires'[j].gate.b)
        /\ GateIsConnected(wires[idx].gate) => wires' = wires]_vars

\* the loop has just visited a wire that was parsed with a reference and
\* was connected re-entrantly in an earlier iteration, and has left every
\* wire as it was
C14_Witness ==
    /\ steps = 0
    /\ pc # "panicked"
    /\ idx >= 3
    /\ LET before == LoopUpTo(input, idx - 2)
       IN /\ ~GateIsConnected(input[idx - 1].gate)
          /\ GateIsConnected(before[idx - 1].gate)
          /\ wires = before

-----------------------------------------------------------------------------
(* C15 *)

\* C15: assemble finishes for every list of definitions, the lists with
\* self references and longer reference cycles included: it never aborts.
\* (The recursion of linking enters only wires that are not borrowed, so
\* its depth is at most the number of wires; what fails is that it ends.)
C15_LinkingTerminates == steps = 0 => pc # "panicked"

-----------------------------------------------------------------------------
(* C16 *)

\* wire j lies on a cycle of connected references or depends on a wire that
\* does
OnOrBehindCycle(ws, j) == \E k \in Deps(ws, j) \cup {j} : k \in Deps(ws, k)

\* get_signal on wire j of the circuit as it is, with fresh counters
Evaluation(j) == WireGetSignal([ws |-> wires, ev |-> NoEvals(wires)], j, {j}, build)

\* C16 as claimed: a get of a wire that lies on a cycle of connected
\* references, or depends on one, evaluates the gate of no wire more than
\* once and ends in an error, never in a result.
C16_CyclicGetFails ==
    pc = "ready" =>
        \A j \in DOMAIN wires :
            OnOrBehindCycle(wires, j) =>
                /\ \A k \in DOMAIN wires : Evaluation(j).st.ev[k] <= 1
                /\ Evaluation(j).panic

\* C16 as amended: a get of a wire that lies on a cycle of connected
\* references, or depends on one, evaluates the gate of no wire more than
\* once and never returns a value: it ends in an error, or it returns no
\* signal, and that only when some wire it evaluates has an input that is
\* not connected (an operand without a signal ends the evaluation before
\* the cycle closes).
C16_CyclicGetNoValue ==
    pc = "ready" =>
        \A j \in DOMAIN wires :
            OnOrBehindCycle(wires, j) =>
                /\ \A k \in DOMAIN wires : Evaluation(j).st.ev[k] <= 1
                /\ ~IsValue(Outcome(Evaluation(j)))
                /\ (\A k \in Deps(wires, j) \cup {j} : GateIsConnected(wires[k].gate))
                      => Evaluation(j).panic

\* a get of a wire on a cycle of connected references, in a circuit without
\* a shift count of 16 or more, has ended in an error after evaluating the
\* gate of each wire of the cycle once
C16_Witness ==
    /\ last.op = "get"
    /\ last.res = Panicked
    /\ \A k \in DOMAIN wires : wires[k].gate.o < SignalBits
    /\ LET w == FindByName(wires, last.name)
       IN /\ w # 0
          /\ w \in Deps(wires, w)
          /\ Deps(wires, w) # {w}
          /\ \A k \in Deps(wires, w) : evals[k] = 1

-----------------------------------------------------------------------------
(* C17 *)

\* C17 as claimed: a get(name) changes the gate of no wire, and the cached
\* signal of no wire but the named one.
C17_GetFillsOwnSlotOnly ==
    [][GetStep =>
        LET w == FindByName(wires, last'.name)
        IN \A j \in DOMAIN wires :
              /\ wires'[j].gate = wires[j].gate
              /\ wires'[j].name = wires[j].name
              /\ j # w => wires'[j].signal = wires[j].signal]_vars

\* C17 as amended: a get(name) changes the gate of no wire; it changes the
\* cached signal only of the named wire and of wires the named wire depends
\* on, and only from absent to a value; every other wire, and every wire
\* that had a cached signal, has the cached signal it had.
C17_GetFillsSlotsOfDependencies ==
    [][GetStep =>
        LET w == FindByName(wires, last'.name)
        IN \A j \in DOMAIN wires :
              /\ wires'[j].gate = wires[j].gate
              /\ wires'[j].name = wires[j].name
              /\ \/ wires'[j].signal = wires[j].signal
                 \/ /\ w # 0
                    /\ j = w \/ j \in Deps(wires, w)
                    /\ wires[j].signal = None
                    /\ IsValue(wires'[j].signal)]_vars

\* the first call was a get that returned a value and left a cached signal
\* in the named wire and in a wire it depends on, and none in a wire it
\* does not depend on
C17_Witness ==
    /\ last.op = "get"
    /\ steps = 1
    /\ IsValue(last.res)
    /\ LET w == FindByName(wires, last.name)
       IN /\ w # 0
          /\ wires[w].signal = last.res
          /\ \E k \in Deps(wires, w) : k # w /\ IsValue(wires[k].signal)
          /\ \E k \in DOMAIN wires \ (Deps(wires, w) \cup {w}) :
                wires[k].signal = None

-----------------------------------------------------------------------------
(* C18 *)

\* the first wire in the order of the list that has the name n
FirstNamed(ws, n) ==
    CHOOSE k \in DOMAIN ws :
        ws[k].name = n /\ \A m \in 1..(k - 1) : ws[m].name # n

Named(ws, n) == \E k \in DOMAIN ws : ws[k].name = n

\* get(n) returns what the first wire named n evaluates to, and set(n, v)
\* gives the first wire named n its new gate and no other wire
GetAndSetSelectFirst ==
    \A n \in AllNames :
        Named(wires, n) =>
            /\ ObserveGet(wires, n) = Observe(wires, FirstNamed(wires, n))
            /\ \A v \in SetValues :
                  CircuitSet(wires, n, v).ws =
                      [CircuitReset(wires) EXCEPT
                          ![FirstNamed(wires, n)].gate = Single(InSignal(v))]

\* every reference that linking has connected is connected to a wire in
\* Selected(j, n), where j is its holder and n the name it was parsed with
ReferencesSelect(Selected(_, _)) ==
    \A j \in DOMAIN input :
        \A k \in DOMAIN GateInputs(input[j].gate) :
            LET parsed == GateInputs(input[j].gate)[k]
                linked == GateInputs(wires[j].gate)[k]
            IN (parsed.kind = "Disconnected" /\ linked.kind = "Connected") =>
                  linked.ref \in Selected(j, parsed.name)

TheFirst(j, n) == {FirstNamed(wires, n)}

\* the wires named n before which every wire named n is j or depends on j
FirstNotInProgress(j, n) ==
    {r \in DOMAIN wires :
        /\ wires[r].name = n
        /\ \A m \in 1..(r - 1) :
              wires[m].name = n => (m = j \/ j \in Deps(wires, m))}

\* C18 as claimed: get(name) and set(name, v) select the first wire of the
\* list with that name, and so does every reference to that name that
\* linking has connected.
C18_FirstMatchWins ==
    /\ pc = "ready" => GetAndSetSelectFirst
    /\ AssembleReturned => ReferencesSelect(TheFirst)

\* C18 as amended: get(name) and set(name, v) select the first wire of the
\* list with that name; a reference to that name that linking has connected
\* selects a wire with that name such that every earlier wire with that
\* name is the holder of the reference or depends on the holder (the wires
\* that can be in the middle of being linked when the reference is).
C18_FirstMatchNotInProgress ==
    /\ pc = "ready" => GetAndSetSelectFirst
    /\ AssembleReturned => ReferencesSelect(FirstNotInProgress)

\* assemble has returned for a list that defines a name twice, with one
\* reference to that name connected to the first wire of the name and
\* another reference to it connected to the second
C18_Witness ==
    /\ AssembleReturned
    /\ \E j1, j2 \in DOMAIN wires :
         \E r1, r2 \in DOMAIN wires :
            /\ r1 < r2
            /\ wires[r1].name = wires[r2].name
            /\ r1 \in RefsOf(wires, j1)
            /\ r2 \in RefsOf(wires, j2)

-----------------------------------------------------------------------------
(* C19 *)

\* C19: in every state of an assembled circuit without a cycle, after any
\* calls of get, set and reset, the cached signal of a wire is the value its
\* gate evaluates to from the gates of the circuit as they are, every cache
\* ignored, and a get returns for every name what it returns with every
\* cache cleared.
C19_CacheCoherence ==
    (pc = "ready" /\ Acyclic(wires)) =>
        /\ \A j \in DOMAIN wires :
              wires[j].signal # None => wires[j].signal = Recomputed(wires, j)
        /\ \A n \in AllNames :
              ObserveGet(wires, n) = ObserveGet(CircuitReset(wires), n)

\* in a circuit without a cycle the last of three calls was a get, the
\* first since a set, of a wire that depends on the wire that was set; it
\* returned a value and the wire and the wires it depends on have cached
\* signals
C19_Witness ==
    /\ last.op = "get"
    /\ pc = "ready"
    /\ steps = MaxSteps
    /\ Acyclic(wires)
    /\ seen[last.name].calls = 1
    /\ IsValue(last.res)
    /\ LET w == FindByName(wires, last.name)
       IN /\ w # 0
          /\ wires[w].gate.op # "Single"
          /\ wires[w].signal = last.res
          /\ \A k \in Deps(wires, w) : IsValue(wires[k].signal)
          /\ \E t \in Deps(wires, w) :
                /\ wires[t].gate = Single(InSignal(65535))
                /\ wires[t].gate # Linked[t].gate

-----------------------------------------------------------------------------
(* C20 *)

\* C20: a set(name, v) for a name that no wire has ends in a panic; it
\* changes the gate and the name of no wire and adds none, and it leaves
\* every wire without a cached signal.
C20_SetUnknown ==
    [][(SetStep /\ ~Named(wires, last'.name)) =>
        /\ pc' = "panicked"
        /\ last'.res = Panicked
        /\ DOMAIN wires' = DOMAIN wires
        /\ \A j \in DOMAIN wires :
             /\ wires'[j].gate = wires[j].gate
             /\ wires'[j].name = wires[j].name
             /\ wires'[j].signal = None]_vars

\* a set of a name no wire has has panicked after earlier calls, in a
\* circuit with a gate over another wire, and no wire has a cached signal
C20_Witness ==
    /\ last.op = "set"
    /\ last.res = Panicked
    /\ pc = "panicked"
    /\ ~Named(wires, last.name)
    /\ steps = MaxSteps
    /\ \E j \in DOMAIN wires : RefsOf(wires, j) # {}
    /\ \A j \in DOMAIN wires : wires[j].signal = None

====
